---------------------------- MODULE Spec2Model ----------------------------
(***************************************************************************)
(* Model of the appointment / calendar reconciliation workflow of the CRM  *)
(* backend: src/api/server.py (request handlers over the PostgreSQL store) *)
(* and src/api/google_calendar.py (the Calendar Client and the free-slot   *)
(* search).                                                                *)
(*                                                                         *)
(* Six specifications share the variables:                                 *)
(*   Spec       the request handlers of server.py, run by concurrent       *)
(*              workers, one store statement or calendar call per step;    *)
(*   SpecSeq    the same handlers, the requests served one after another;  *)
(*   SpecSlots  proximos_slots_disponiveis_calendar over a provider whose  *)
(*              agenda is drawn in Init;                                   *)
(*   SpecCal    the Calendar Client functions called directly;             *)
(*   SpecIdaVolta          criar_evento followed by                        *)
(*                         listar_horarios_ocupados;                       *)
(*   SpecDisponibilidade   the availability endpoints of server.py over a  *)
(*                         store and an agenda drawn in Init.              *)
(*                                                                         *)
(* Encodings.  A date "YYYY-MM-DD" is a day ordinal (an integer; the       *)
(* ordinal modulo 7 is date.weekday(), 0 = Monday), so that date order is  *)
(* the order of the formatted strings.  A time "HH:MM" is the pair         *)
(* <<HH, MM>>.  SQL NULL / Python None in the google_event_id column is    *)
(* NULL; provider event identifiers are 1, 2, ...                          *)
(***************************************************************************)
EXTENDS Integers, Sequences, FiniteSets, TLC

VARIABLES
    clientes,      \* table clientes: the set of committed client ids
    nextCliente,   \* SERIAL sequence of clientes.id
    agendamentos,  \* table agendamentos (committed rows): id -> row
    nextAg,        \* SERIAL sequence of agendamentos.id
    eventos,       \* the provider's calendar: event id -> event body
    nextEvento,    \* next identifier the provider assigns
    criados,       \* history: ids returned by successful events().insert
    deleteCalls,   \* history: event ids passed to cancelar_evento
    updateCalls,   \* history: event ids passed to atualizar_evento by server.py
    req,           \* per worker: the request it is handling and its locals
    resp,          \* the latest response: the locals of the handler that returned
    hoje,          \* datetime.now().date() of the free-slot search
    quantidade,    \* argument of proximos_slots_disponiveis_calendar
    resultado,     \* its return value
    slotsPc,       \* "init" before the call, "done" after ("off" in the other specifications)
    ultima         \* SpecCal: the last Calendar Client call and what it saw

vars == <<clientes, nextCliente, agendamentos, nextAg, eventos, nextEvento,
          criados, deleteCalls, updateCalls, req, resp, hoje, quantidade, resultado,
          slotsPc, ultima>>

storeVars == <<clientes, nextCliente, agendamentos, nextAg>>
calVars   == <<eventos, nextEvento, criados, deleteCalls, updateCalls>>
slotVars  == <<hoje, quantidade, resultado, slotsPc>>

----------------------------------------------------------------------------
(* Bounds of the model *)

MaxClientes == 1
MaxAgendamentos == 1
MaxEventos == 1

\* the concurrent workers serving requests: two, so that every pair of
\* handlers interleaves
Procs == {1, 2}

----------------------------------------------------------------------------
(* Dates, times and the datetime conversions of google_calendar.py *)

NULL == 0

DURACAO_MIN == 60

MinutosPorDia == 24 * 60

\* strptime(..., "%H:%M") accepts the time only when it is a time of day.
HoraValida(hora) == hora[1] \in 0..23 /\ hora[2] \in 0..59

\* datetime.strptime(f"{data} {hora}", "%Y-%m-%d %H:%M")
Strptime(data, hora) == [dia |-> data, min |-> hora[1] * 60 + hora[2]]

\* inicio + timedelta(minutes=n)
MaisMinutos(dt, n) ==
    [dia |-> dt.dia + ((dt.min + n) \div MinutosPorDia),
     min |-> (dt.min + n) % MinutosPorDia]

\* datetime.isoformat(): the date and the time of day written back
Isoformat(dt) == [data |-> dt.dia, hora |-> <<dt.min \div 60, dt.min % 60>>]

\* the body criar_evento sends to events().insert
NovoEvento(titulo, data, hora, descricao, duracao_min) ==
    LET inicio == Strptime(data, hora)
        fim    == MaisMinutos(inicio, duracao_min)
    IN  [summary     |-> titulo,
         description |-> descricao,
         start       |-> Isoformat(inicio),
         end         |-> Isoformat(fim)]

\* criar_evento returns an id only when the time parses and the provider
\* (credentials, network, API) answers; otherwise it raises.
CriarEventoOk(hora, provOk) == provOk /\ HoraValida(hora)


\* minutes since day 0 of a provider timestamp
EmMinutos(ts) == ts.data * MinutosPorDia + ts.hora[1] * 60 + ts.hora[2]

\* Optional arguments (data: str = None, ...): <<>> is None, <<v>> is v.
Nenhum == << >>
Algum(v) == <<v>>
\* "if titulo:" is false for None and for the empty string
TruthyStr(opt) == opt # Nenhum /\ opt[1] # ""
\* "if data and hora": dates and times of the model are never empty strings
Dado(opt) == opt # Nenhum

\* atualizar_evento: the fetched event with the given fields laid over it
CorpoAtualizado_TituloSempre(evento, data, hora, titulo, descricao, duracao_min) ==
    [evento EXCEPT !.summary = IF titulo # Nenhum THEN titulo[1] ELSE ""]

CorpoAtualizado(evento, data, hora, titulo, descricao, duracao_min) ==
    LET e1 == IF TruthyStr(titulo) THEN [evento EXCEPT !.summary = titulo[1]]
                                   ELSE evento
        e2 == IF TruthyStr(descricao) THEN [e1 EXCEPT !.description = descricao[1]]
                                      ELSE e1
    IN  IF Dado(data) /\ Dado(hora)
           THEN LET inicio == Strptime(data[1], hora[1])
                    fim    == MaisMinutos(inicio, duracao_min)
                IN  [e2 EXCEPT !.start = Isoformat(inicio), !.end = Isoformat(fim)]
           ELSE e2

\* atualizar_evento returns True only when the provider answers, the event
\* exists (events().get) and, if both are given, the date and time parse
AtualizarEventoOk(event_id, data, hora, provOk) ==
    /\ provOk
    /\ event_id \in DOMAIN eventos
    /\ (Dado(data) /\ Dado(hora)) => HoraValida(hora[1])

\* events().list(timeMin = data 00:00, timeMax = data 23:59): the events that
\* end after timeMin and start before timeMax
NoDia(ev, data) ==
    /\ EmMinutos(ev.end) > data * MinutosPorDia
    /\ EmMinutos(ev.start) < data * MinutosPorDia + 23 * 60 + 59

\* listar_horarios_ocupados(data): the "%H:%M" start times of the day's events
\* (the list is only ever tested for membership)
ListarHorariosOcupados(data) ==
    {eventos[e].start.hora : e \in {x \in DOMAIN eventos : NoDia(eventos[x], data)}}

----------------------------------------------------------------------------
(* proximos_slots_disponiveis_calendar *)

HORARIOS == << <<8, 0>>, <<9, 0>>, <<10, 0>>, <<11, 0>>,
               <<13, 0>>, <<14, 0>>, <<15, 0>>, <<16, 0>> >>

JANELA_DIAS == 30

\* date.weekday(): 0 is Monday
Weekday(data) == data % 7

\* "if data.weekday() >= 5: continue"
FimDeSemana(data) == Weekday(data) >= 5

RECURSIVE VarreHoras(_, _, _, _, _)
\* for hora in HORARIOS: ... ; ret says that the return inside the loop ran
VarreHoras(res, data, ocupados, j, qtd) ==
    IF j > Len(HORARIOS)
       THEN [res |-> res, ret |-> FALSE]
       ELSE IF HORARIOS[j] \notin ocupados
               THEN LET r2 == Append(res, [data |-> data, hora |-> HORARIOS[j]])
                    IN  IF Len(r2) >= qtd
                           THEN [res |-> r2, ret |-> TRUE]
                           ELSE VarreHoras(r2, data, ocupados, j + 1, qtd)
               ELSE VarreHoras(res, data, ocupados, j + 1, qtd)

RECURSIVE VarreDias(_, _, _, _)
\* for i in range(30): ...
VarreDias(res, i, hj, qtd) ==
    IF i >= JANELA_DIAS
       THEN res
       ELSE LET data == hj + i
            IN  IF FimDeSemana(data)
                   THEN VarreDias(res, i + 1, hj, qtd)
                   ELSE LET v == VarreHoras(res, data, ListarHorariosOcupados(data), 1, qtd)
                        IN  IF v.ret THEN v.res
                                     ELSE VarreDias(v.res, i + 1, hj, qtd)

ProximosSlots(hj, qtd) == VarreDias(<< >>, 0, hj, qtd)

----------------------------------------------------------------------------
(* The store and the requests of server.py *)

\* Inputs the requests are drawn from
ClienteIds   == 1..MaxClientes
AgIds        == 1..MaxAgendamentos
DatasPedido  == {1}
HorasPedido  == {<<8, 0>>}
StatusPedido == {"ativo", "cancelado"}

\* A worker with no request in hand; the locals of every handler, cleared.
Idle ==
    [op |-> "idle", pc |-> "idle", result |-> "",
     id |-> 0, cliente_id |-> 0, data |-> 0, hora |-> <<0, 0>>, status |-> "",
     ag_id |-> 0, achou |-> FALSE, lido |-> NULL, event_id |-> NULL,
     nDel |-> 0, delArg |-> NULL]

Livre(p) == req[p].pc = "idle"

\* the handler returns res; the response record keeps, of its locals, the
\* Calendar Client delete calls it made (how many, and the last argument)
Retorna(r, res) ==
    [Idle EXCEPT !.pc = "done", !.op = r.op, !.result = res,
                 !.nDel = r.nDel, !.delArg = r.delArg]

\* One step of worker p's handler leaves its locals as novo; a handler that
\* has returned frees the worker and its response becomes the latest one.
Passo(p, novo) ==
    IF novo.pc = "done"
       THEN /\ req' = [req EXCEPT ![p] = Idle]
            /\ resp' = novo
       ELSE /\ req' = [req EXCEPT ![p] = novo]
            /\ UNCHANGED resp

\* agendamentos.cliente_id REFERENCES clientes(id): an INSERT passes only when
\* the referenced client row exists.
FkClienteOk_SemFk(c) == TRUE

FkClienteOk(c) == c \in clientes

\* An open transaction that inserted an appointment holds a key-share lock on
\* its client row until it commits.
ClienteBloqueado(c) ==
    \E q \in Procs : /\ req[q].op = "criar_agendamento"
                     /\ req[q].pc \in {"calendar", "commit"}
                     /\ req[q].cliente_id = c

\* DELETE FROM clientes is refused while a committed appointment references it.
FkPermiteDeletarCliente(c) ==
    \A a \in DOMAIN agendamentos : agendamentos[a].cliente_id # c

\* the title criar_agendamento derives (type label and client name)
Titulo == "Consulta - Cliente"

(* ---- POST /api/agendamentos : criar_agendamento ---- *)

\* SELECT the client, then INSERT the row inside the request's transaction.
BeginCriarAgendamento(p, c, d, h) ==
    /\ Livre(p)
    /\ nextAg <= MaxAgendamentos
    /\ nextAg' = nextAg + 1
    /\ IF FkClienteOk(c)
          THEN Passo(p,
                         [Idle EXCEPT !.op = "criar_agendamento", !.pc = "calendar",
                                      !.cliente_id = c, !.data = d, !.hora = h,
                                      !.ag_id = nextAg])
          ELSE \* IntegrityError: the handler's finally closes the connection
               Passo(p,
                         Retorna([Idle EXCEPT !.op = "criar_agendamento",
                                              !.cliente_id = c, !.data = d,
                                              !.hora = h], "erro"))
    /\ UNCHANGED <<clientes, nextCliente, agendamentos, calVars, slotVars, ultima>>

\* google_event_id of the inserted row after the try block: the UPDATE runs
\* only when criar_evento returned an id
RefAposCriar_GravaSempre(r, ok, novoId) == novoId

RefAposCriar(r, ok, novoId) == IF ok THEN novoId ELSE r.event_id

\* try: event_id = criar_evento(...); UPDATE ... SET google_event_id
\* except: log.  The transaction is still open.
CriarAgendamentoCalendar(p, provOk) ==
    /\ req[p].op = "criar_agendamento" /\ req[p].pc = "calendar"
    /\ provOk => nextEvento <= MaxEventos
    /\ IF CriarEventoOk(req[p].hora, provOk)
          THEN /\ eventos' = eventos @@
                      (nextEvento :> NovoEvento(Titulo, req[p].data, req[p].hora,
                                                "", DURACAO_MIN))
               /\ nextEvento' = nextEvento + 1
               /\ criados' = criados \cup {nextEvento}
               /\ Passo(p, [req[p] EXCEPT !.event_id = RefAposCriar(req[p], TRUE, nextEvento),
                                          !.pc = "commit"])
          ELSE /\ UNCHANGED <<eventos, nextEvento, criados>>
               /\ Passo(p, [req[p] EXCEPT !.event_id = RefAposCriar(req[p], FALSE, nextEvento),
                                          !.pc = "commit"])
    /\ UNCHANGED <<storeVars, deleteCalls, updateCalls, slotVars, ultima>>

\* the row the transaction commits: status takes its DEFAULT 'ativo'
LinhaInserida_SemRef(r) ==
    [cliente_id |-> r.cliente_id, data |-> r.data, hora |-> r.hora,
     status |-> "ativo", google_event_id |-> NULL]

LinhaInserida(r) ==
    [cliente_id |-> r.cliente_id, data |-> r.data, hora |-> r.hora,
     status |-> "ativo", google_event_id |-> r.event_id]

\* the table once the handler's transaction ends: the INSERT and the UPDATE
\* of the reference commit together, whatever the calendar call did
TabelaAposCommit_DesfazSemEvento(r) ==
    IF r.event_id = NULL THEN agendamentos
                         ELSE agendamentos @@ (r.ag_id :> LinhaInserida(r))

TabelaAposCommit(r) == agendamentos @@ (r.ag_id :> LinhaInserida(r))

\* conn.commit(); return {"ok": True, "id": ag_id}
CriarAgendamentoCommit(p) ==
    /\ req[p].op = "criar_agendamento" /\ req[p].pc = "commit"
    /\ agendamentos' = TabelaAposCommit(req[p])
    /\ Passo(p, Retorna(req[p], "ok"))
    /\ UNCHANGED <<clientes, nextCliente, nextAg, calVars, slotVars, ultima>>

(* ---- PUT /api/agendamentos/{id}/status : atualizar_status ---- *)

\* SELECT google_event_id FROM agendamentos WHERE id=%s
BeginAtualizarStatus(p, id, st) ==
    /\ Livre(p)
    /\ Passo(p,
                 [Idle EXCEPT !.op = "atualizar_status", !.pc = "update",
                              !.id = id, !.status = st,
                              !.achou = (id \in DOMAIN agendamentos),
                              !.lido = IF id \in DOMAIN agendamentos
                                          THEN agendamentos[id].google_event_id
                                          ELSE NULL])
    /\ UNCHANGED <<storeVars, calVars, slotVars, ultima>>

\* if row and row["google_event_id"] and status == "cancelado"
DeveCancelar_SemStatus(achou, lido, status) == achou /\ lido # NULL

DeveCancelar(achou, lido, status) ==
    achou /\ lido # NULL /\ status = "cancelado"

\* UPDATE agendamentos SET status=%s WHERE id=%s ; conn.commit()
AtualizarStatusUpdate(p) ==
    /\ req[p].op = "atualizar_status" /\ req[p].pc = "update"
    /\ agendamentos' =
          IF req[p].id \in DOMAIN agendamentos
             THEN [agendamentos EXCEPT ![req[p].id].status = req[p].status]
             ELSE agendamentos
    /\ Passo(p,
                 IF DeveCancelar(req[p].achou, req[p].lido, req[p].status)
                    THEN [req[p] EXCEPT !.pc = "calendar"]
                    ELSE Retorna(req[p], "ok"))
    /\ UNCHANGED <<clientes, nextCliente, nextAg, calVars, slotVars, ultima>>

\* cancelar_evento(event_id): the provider deletes the event, or the call
\* raises (provider down, event already gone); the handlers catch and log.
CancelarEvento(event_id, provOk) ==
    /\ deleteCalls' = deleteCalls \cup {event_id}
    /\ eventos' = IF provOk /\ event_id \in DOMAIN eventos
                     THEN [e \in DOMAIN eventos \ {event_id} |-> eventos[e]]
                     ELSE eventos

\* try: cancelar_evento(row["google_event_id"]) except: log ; return {"ok": True}
AtualizarStatusCalendar(p, provOk) ==
    /\ req[p].op = "atualizar_status" /\ req[p].pc = "calendar"
    /\ CancelarEvento(req[p].lido, provOk)
    /\ Passo(p,
                 Retorna([req[p] EXCEPT !.nDel = @ + 1, !.delArg = req[p].lido], "ok"))
    /\ UNCHANGED <<storeVars, nextEvento, criados, updateCalls, slotVars, ultima>>

(* ---- DELETE /api/agendamentos/{id} : deletar_agendamento ---- *)

BeginDeletarAgendamento(p, id) ==
    /\ Livre(p)
    /\ Passo(p,
                 [Idle EXCEPT !.op = "deletar_agendamento", !.pc = "delete",
                              !.id = id,
                              !.achou = (id \in DOMAIN agendamentos),
                              !.lido = IF id \in DOMAIN agendamentos
                                          THEN agendamentos[id].google_event_id
                                          ELSE NULL])
    /\ UNCHANGED <<storeVars, calVars, slotVars, ultima>>

\* if row and row["google_event_id"]
DeveCancelarAoDeletar(achou, lido) == achou /\ lido # NULL

\* DELETE FROM agendamentos WHERE id=%s ; conn.commit()
DeletarAgendamentoDelete(p) ==
    /\ req[p].op = "deletar_agendamento" /\ req[p].pc = "delete"
    /\ agendamentos' = [a \in DOMAIN agendamentos \ {req[p].id} |-> agendamentos[a]]
    /\ Passo(p,
                 IF DeveCancelarAoDeletar(req[p].achou, req[p].lido)
                    THEN [req[p] EXCEPT !.pc = "calendar"]
                    ELSE Retorna(req[p], "ok"))
    /\ UNCHANGED <<clientes, nextCliente, nextAg, calVars, slotVars, ultima>>

DeletarAgendamentoCalendar(p, provOk) ==
    /\ req[p].op = "deletar_agendamento" /\ req[p].pc = "calendar"
    /\ CancelarEvento(req[p].lido, provOk)
    /\ Passo(p,
                 Retorna([req[p] EXCEPT !.nDel = @ + 1, !.delArg = req[p].lido], "ok"))
    /\ UNCHANGED <<storeVars, nextEvento, criados, updateCalls, slotVars, ultima>>

(* ---- POST /api/calendar/evento : criar_evento_calendar ---- *)

\* event_id = criar_evento(...); a failure is answered with HTTP 500
BeginCriarEventoCalendar(p, agid, d, h, provOk) ==
    /\ Livre(p)
    /\ provOk => nextEvento <= MaxEventos
    /\ IF CriarEventoOk(h, provOk)
          THEN /\ eventos' = eventos @@
                      (nextEvento :> NovoEvento(Titulo, d, h, "", DURACAO_MIN))
               /\ nextEvento' = nextEvento + 1
               /\ criados' = criados \cup {nextEvento}
               /\ Passo(p,
                     LET r == [Idle EXCEPT !.op = "criar_evento_calendar",
                                           !.id = agid, !.data = d, !.hora = h,
                                           !.event_id = nextEvento]
                     IN  \* if data.agendamento_id:
                         IF agid # 0 THEN [r EXCEPT !.pc = "update"]
                                     ELSE Retorna(r, "ok"))
          ELSE /\ UNCHANGED <<eventos, nextEvento, criados>>
               /\ Passo(p,
                     Retorna([Idle EXCEPT !.op = "criar_evento_calendar",
                                          !.id = agid, !.data = d, !.hora = h],
                             "erro"))
    /\ UNCHANGED <<storeVars, deleteCalls, updateCalls, slotVars, ultima>>

\* UPDATE agendamentos SET google_event_id=%s WHERE id=%s ; conn.commit()
CriarEventoCalendarUpdate(p) ==
    /\ req[p].op = "criar_evento_calendar" /\ req[p].pc = "update"
    /\ agendamentos' =
          IF req[p].id \in DOMAIN agendamentos
             THEN [agendamentos EXCEPT ![req[p].id].google_event_id = req[p].event_id]
             ELSE agendamentos
    /\ Passo(p, Retorna(req[p], "ok"))
    /\ UNCHANGED <<clientes, nextCliente, nextAg, calVars, slotVars, ultima>>

(* ---- /api/contatos : criar_contato, deletar_contato ---- *)

\* INSERT INTO clientes ... ; conn.commit()
CriarContato(p) ==
    /\ Livre(p)
    /\ nextCliente <= MaxClientes
    /\ clientes' = clientes \cup {nextCliente}
    /\ nextCliente' = nextCliente + 1
    /\ Passo(p, Retorna([Idle EXCEPT !.op = "criar_contato"], "ok"))
    /\ UNCHANGED <<agendamentos, nextAg, calVars, slotVars, ultima>>

\* DELETE FROM clientes WHERE id=%s ; conn.commit()
\* The statement waits for a transaction holding the row's key-share lock;
\* a foreign-key violation is an unhandled IntegrityError (HTTP 500).
DeletarContato(p, c) ==
    /\ Livre(p)
    /\ ~ClienteBloqueado(c)
    /\ IF FkPermiteDeletarCliente(c)
          THEN /\ clientes' = clientes \ {c}
               /\ Passo(p,
                     Retorna([Idle EXCEPT !.op = "deletar_contato", !.id = c], "ok"))
          ELSE /\ UNCHANGED clientes
               /\ Passo(p,
                     Retorna([Idle EXCEPT !.op = "deletar_contato", !.id = c], "erro"))
    /\ UNCHANGED <<nextCliente, agendamentos, nextAg, calVars, slotVars, ultima>>

----------------------------------------------------------------------------
(* Specification of the request handlers *)

\* a provider event that is not there
SemEvento ==
    [summary |-> "", description |-> "",
     start |-> [data |-> 0, hora |-> <<0, 0>>],
     end |-> [data |-> 0, hora |-> <<0, 0>>]]

\* no Calendar Client call recorded
SemChamada ==
    [op |-> "none", id |-> NULL, data |-> Nenhum, hora |-> Nenhum,
     titulo |-> Nenhum, descricao |-> Nenhum, ok |-> FALSE,
     antes |-> SemEvento, lista |-> {}]

\* after init_db(): empty tables, an empty calendar, idle workers
Init ==
    /\ clientes = {}
    /\ nextCliente = 1
    /\ agendamentos = << >>
    /\ nextAg = 1
    /\ eventos = << >>
    /\ nextEvento = 1
    /\ criados = {}
    /\ deleteCalls = {}
    /\ updateCalls = {}
    /\ req = [p \in Procs |-> Idle]
    /\ resp = Idle
    /\ hoje = 0
    /\ quantidade = 0
    /\ resultado = << >>
    /\ slotsPc = "off"
    /\ ultima = SemChamada

\* one step of worker p: it takes a request, or runs the next statement of
\* the handler it is in
Pedido(p) ==
    \/ \E c \in ClienteIds, d \in DatasPedido, h \in HorasPedido :
          BeginCriarAgendamento(p, c, d, h)
    \/ \E provOk \in BOOLEAN : CriarAgendamentoCalendar(p, provOk)
    \/ CriarAgendamentoCommit(p)
    \/ \E id \in AgIds, st \in StatusPedido : BeginAtualizarStatus(p, id, st)
    \/ AtualizarStatusUpdate(p)
    \/ \E provOk \in BOOLEAN : AtualizarStatusCalendar(p, provOk)
    \/ \E id \in AgIds : BeginDeletarAgendamento(p, id)
    \/ DeletarAgendamentoDelete(p)
    \/ \E provOk \in BOOLEAN : DeletarAgendamentoCalendar(p, provOk)
    \/ \E agid \in {0} \cup AgIds, d \in DatasPedido, h \in HorasPedido,
          provOk \in BOOLEAN : BeginCriarEventoCalendar(p, agid, d, h, provOk)
    \/ CriarEventoCalendarUpdate(p)
    \/ CriarContato(p)
    \/ \E c \in ClienteIds : DeletarContato(p, c)

Next == \E p \in Procs : Pedido(p)

Spec == Init /\ [][Next]_vars

\* Requests served one after the other: a single worker, so every handler
\* runs to its return before the next request starts.
NextSeq == Pedido(1)

SpecSeq == Init /\ [][NextSeq]_vars

----------------------------------------------------------------------------
(* Properties of the request handlers *)

\* worker p's handler returns in this step
Retornou(p) == req[p].pc # "idle" /\ req'[p].pc = "idle"

RefDe(id) == IF id \in DOMAIN agendamentos THEN agendamentos[id].google_event_id
                                           ELSE NULL

\* C1: a create-appointment request for an existing client returns success
\* with its row in the store, status active, whether the calendar create
\* succeeded or failed; after a failed create the row's reference is null.
C1_RowStoredWhateverCalendar ==
    [][\A p \in Procs :
          (/\ req[p].op = "criar_agendamento"
           /\ Retornou(p)
           /\ req[p].cliente_id \in clientes)
          => /\ resp'.op = "criar_agendamento" /\ resp'.result = "ok"
             /\ req[p].ag_id \in DOMAIN agendamentos'
             /\ agendamentos'[req[p].ag_id].status = "ativo"
             /\ agendamentos'[req[p].ag_id].cliente_id = req[p].cliente_id
             /\ req[p].event_id = NULL =>
                   agendamentos'[req[p].ag_id].google_event_id = NULL
             /\ req[p].event_id # NULL =>
                   agendamentos'[req[p].ag_id].google_event_id = req[p].event_id
      ]_vars

\* the latest response is a successful create whose calendar call failed:
\* the row is there, active, with no reference
C1_Witness ==
    /\ resp.op = "criar_agendamento" /\ resp.result = "ok"
    /\ \E a \in DOMAIN agendamentos :
          /\ agendamentos[a].status = "ativo"
          /\ agendamentos[a].google_event_id = NULL
    /\ criados = {}

\* C2: a status change reads the appointment's stored reference; when the new
\* status is cancelled and that reference is non-null the request makes exactly
\* one Calendar Client delete call, carrying that reference; otherwise none.
C2_CancelDeletesOnce ==
    [][\A p \in Procs :
          /\ (req[p].pc = "idle" /\ req'[p].op = "atualizar_status")
             => /\ req'[p].lido = RefDe(req'[p].id)
                /\ req'[p].achou = (req'[p].id \in DOMAIN agendamentos)
                /\ req'[p].nDel = 0
          /\ (req[p].op = "atualizar_status" /\ Retornou(p))
             => IF req[p].achou /\ req[p].lido # NULL /\ req[p].status = "cancelado"
                   THEN /\ resp'.op = "atualizar_status"
                        /\ resp'.nDel = 1
                        /\ resp'.delArg = req[p].lido
                        /\ req[p].lido \in deleteCalls'
                        /\ deleteCalls' \subseteq deleteCalls \cup {req[p].lido}
                   ELSE /\ resp'.op = "atualizar_status"
                        /\ resp'.nDel = 0
                        /\ deleteCalls' = deleteCalls
      ]_vars

\* the latest response is a cancellation that made its one delete call
C2_Witness ==
    /\ resp.op = "atualizar_status"
    /\ resp.nDel = 1
    /\ resp.delArg # NULL
    /\ resp.delArg \in deleteCalls

FkIntegra ==
    \A a \in DOMAIN agendamentos : agendamentos[a].cliente_id \in clientes

TemAgendamento(c) ==
    \E a \in DOMAIN agendamentos : agendamentos[a].cliente_id = c

\* C4: every appointment in the store names a client that exists; deleting a
\* client that still has appointments is rejected and changes neither table;
\* creating an appointment for a client that does not exist adds no row.
C4_ForeignKeyEnforced ==
    /\ FkIntegra
    /\ [][/\ FkIntegra'
          /\ \A p \in Procs, c \in ClienteIds :
                (DeletarContato(p, c) /\ TemAgendamento(c))
                => /\ resp'.op = "deletar_contato" /\ resp'.result = "erro"
                   /\ clientes' = clientes
                   /\ agendamentos' = agendamentos
          /\ \A p \in Procs, c \in ClienteIds, d \in DatasPedido, h \in HorasPedido :
                (BeginCriarAgendamento(p, c, d, h) /\ c \notin clientes)
                => /\ resp'.op = "criar_agendamento" /\ resp'.result = "erro"
                   /\ req'[p].pc = "idle"
                   /\ agendamentos' = agendamentos
         ]_vars

\* a delete-client request has just been rejected and the client's
\* appointment is still there
C4_Witness ==
    /\ resp.op = "deletar_contato" /\ resp.result = "erro"
    /\ \E a \in DOMAIN agendamentos : agendamentos[a].cliente_id \in clientes

Quieto == \A p \in Procs : req[p].pc = "idle"

\* C5: once every request has returned, each appointment that is cancelled
\* and holds a reference has had a Calendar Client delete requested for it.
C5_CancelledRefDeleteRequested ==
    Quieto =>
       \A a \in DOMAIN agendamentos :
          (agendamentos[a].status = "cancelado" /\ agendamentos[a].google_event_id # NULL)
          => agendamentos[a].google_event_id \in deleteCalls

RefsCriadas ==
    /\ \A a \in DOMAIN agendamentos :
          agendamentos[a].google_event_id # NULL
          => agendamentos[a].google_event_id \in criados
    /\ \A p \in Procs : req[p].event_id # NULL => req[p].event_id \in criados

\* C6: a non-null reference on a row (or about to be written by a handler) is
\* an id a successful create returned; a create that fails leaves the
\* references as they were; a row without a reference is still updated by a
\* status change and removed by a delete.
C6_RefOnlyFromSuccessfulCreate ==
    /\ RefsCriadas
    /\ [][/\ RefsCriadas'
          /\ \A p \in Procs :
                /\ (req[p].op = "criar_agendamento" /\ req[p].pc = "calendar"
                      /\ req'[p].pc = "commit" /\ criados' = criados)
                   => req'[p].event_id = NULL /\ agendamentos' = agendamentos
                /\ (resp'.op = "criar_evento_calendar" /\ resp'.result = "erro"
                      /\ resp' # resp)
                   => agendamentos' = agendamentos
                /\ (req[p].op = "atualizar_status" /\ req[p].pc = "update"
                      /\ req'[p] # req[p] /\ RefDe(req[p].id) = NULL
                      /\ req[p].id \in DOMAIN agendamentos)
                   => agendamentos'[req[p].id].status = req[p].status
                /\ (req[p].op = "deletar_agendamento" /\ req[p].pc = "delete"
                      /\ req'[p] # req[p])
                   => req[p].id \notin DOMAIN agendamentos'
         ]_vars

\* a row holds a reference, and it is one the provider returned
C6_Witness ==
    \E a \in DOMAIN agendamentos :
       /\ agendamentos[a].google_event_id # NULL
       /\ agendamentos[a].google_event_id \in criados

\* C7: whenever a create-appointment handler is about to call the Calendar
\* Client create, the row it inserted is already committed.
C7_CommitBeforeCalendarCall ==
    \A p \in Procs :
       (req[p].op = "criar_agendamento" /\ req[p].pc = "calendar")
       => req[p].ag_id \in DOMAIN agendamentos

\* C8: an update request that keeps an active appointment active, the
\* appointment holding a reference, has called the Calendar Client update
\* with that reference when it returns, and the row keeps its reference.
C8_RescheduleCallsUpdate ==
    [][\A p \in Procs :
          (/\ req[p].op = "atualizar_status" /\ Retornou(p)
           /\ req[p].status = "ativo"
           /\ req[p].id \in DOMAIN agendamentos
           /\ agendamentos[req[p].id].status = "ativo"
           /\ agendamentos[req[p].id].google_event_id # NULL)
          => /\ agendamentos[req[p].id].google_event_id \in updateCalls'
             /\ agendamentos'[req[p].id].status = "ativo"
             /\ agendamentos'[req[p].id].google_event_id =
                   agendamentos[req[p].id].google_event_id
      ]_vars

----------------------------------------------------------------------------
(* Specification of the free-slot search *)

MaxQuantidade == 3

MaxDiasCheios == 2

QUANTIDADE_ENDPOINT == 10

Quantidades == (0..MaxQuantidade) \cup {QUANTIDADE_ENDPOINT}

\* every weekday the search can start on
Hojes == 0..6

Cheio == {HORARIOS[j] : j \in 1..Len(HORARIOS)}

\* busy times of the first day that is not fully booked, and of the days after
OcupadosPrimeiro ==
    {{}, {<<8, 0>>}, {<<8, 30>>, <<12, 0>>, <<23, 30>>}, Cheio \ {<<16, 0>>}}
OcupadosDepois == {{}, {<<9, 0>>, <<10, 0>>}, Cheio}

\* how many leading days of the window are fully booked: a few, or all but
\* the last day, or all of them
DiasCheios == (0..MaxDiasCheios) \cup {JANELA_DIAS - 1, JANELA_DIAS}

\* The provider's agenda: the first k days of the window fully booked, day k
\* with the times b1 taken, the later days with the times b2 taken.
HorasDoDia(i, k, b1, b2) == IF i < k THEN Cheio ELSE IF i = k THEN b1 ELSE b2

IdDe(data, hora) == data * 10000 + hora[1] * 100 + hora[2]

AgendaEventos(hj, k, b1, b2) ==
    LET ids == UNION {{IdDe(hj + i, h) : h \in HorasDoDia(i, k, b1, b2)} :
                         i \in 0..(JANELA_DIAS - 1)}
    IN  [id \in ids |->
            NovoEvento(Titulo, id \div 10000, <<(id % 10000) \div 100, id % 100>>,
                       "", DURACAO_MIN)]

InitSlots ==
    /\ clientes = {}
    /\ nextCliente = 1
    /\ agendamentos = << >>
    /\ nextAg = 1
    /\ nextEvento = 1
    /\ criados = {}
    /\ deleteCalls = {}
    /\ updateCalls = {}
    /\ req = [p \in Procs |-> Idle]
    /\ resp = Idle
    /\ ultima = SemChamada
    /\ resultado = << >>
    /\ slotsPc = "init"
    /\ hoje \in Hojes
    /\ quantidade \in Quantidades
    /\ \E k \in DiasCheios, b1 \in OcupadosPrimeiro, b2 \in OcupadosDepois :
          eventos = AgendaEventos(hoje, k, b1, b2)

\* slots = proximos_slots_disponiveis_calendar(quantidade)
ChamarProximosSlots ==
    /\ slotsPc = "init"
    /\ resultado' = ProximosSlots(hoje, quantidade)
    /\ slotsPc' = "done"
    /\ UNCHANGED <<storeVars, calVars, req, resp, hoje, quantidade, ultima>>

NextSlots == ChamarProximosSlots

SpecSlots == InitSlots /\ [][NextSlots]_vars

\* (date, time) order of two slots
SlotAntesOuIgual(a, b) ==
    \/ a.data < b.data
    \/ /\ a.data = b.data
       /\ \/ a.hora[1] < b.hora[1]
          \/ a.hora[1] = b.hora[1] /\ a.hora[2] <= b.hora[2]

\* C3: the slots returned for count n fall on no Saturday or Sunday, are at
\* most n, and are in non-decreasing (date, time) order.
C3_SlotsWeekdaysAtMostNOrdered ==
    slotsPc = "done" =>
       /\ \A i \in 1..Len(resultado) : Weekday(resultado[i].data) \notin {5, 6}
       /\ Len(resultado) <= quantidade
       /\ \A i \in 1..(Len(resultado) - 1) :
             SlotAntesOuIgual(resultado[i], resultado[i + 1])

\* the free candidate times of one day, in candidate-list order
LivresDoDia(data) ==
    LET oc == ListarHorariosOcupados(data)
        hs == SelectSeq(HORARIOS, LAMBDA h : h \notin oc)
    IN  [j \in 1..Len(hs) |-> [data |-> data, hora |-> hs[j]]]

RECURSIVE LivresDesde(_, _)
\* every free (weekday date, candidate time) pair from day i of the window on
LivresDesde(i, hj) ==
    IF i >= JANELA_DIAS
       THEN << >>
       ELSE (IF Weekday(hj + i) \in {5, 6} THEN << >> ELSE LivresDoDia(hj + i))
            \o LivresDesde(i + 1, hj)

Menor(a, b) == IF a <= b THEN a ELSE b

\* C10: the result is the first min(count, F) elements of the enumeration of
\* the window's free pairs, F being its length.
C10_SlotsArePrefixOfEnumeration ==
    slotsPc = "done" =>
       LET todos == LivresDesde(0, hoje)
       IN  resultado = SubSeq(todos, 1, Menor(quantidade, Len(todos)))

----------------------------------------------------------------------------
(* Specification of the Calendar Client called directly *)

TitulosCal    == {"Retorno - Ana"}
DescricoesCal == {"obs"}
DatasCal      == {1, 2}
HorasCal      == {<<23, 30>>, <<24, 0>>}    \* "23:30" ends after midnight; "24:00" does not parse
TitulosOpt    == {Nenhum, Algum(""), Algum("Urgente - Ana")}
DescricoesOpt == {Nenhum, Algum("nova")}
DatasOpt      == {Nenhum} \cup {Algum(d) : d \in DatasCal}
HorasOpt      == {Nenhum} \cup {Algum(h) : h \in HorasCal}

\* criar_evento(titulo, data, hora, descricao)
CalCriarEvento(titulo, data, hora, descricao, provOk) ==
    /\ provOk => nextEvento <= MaxEventos
    /\ IF CriarEventoOk(hora, provOk)
          THEN /\ eventos' = eventos @@
                      (nextEvento :> NovoEvento(titulo, data, hora, descricao, DURACAO_MIN))
               /\ nextEvento' = nextEvento + 1
               /\ criados' = criados \cup {nextEvento}
          ELSE UNCHANGED <<eventos, nextEvento, criados>>
    /\ ultima' = [SemChamada EXCEPT !.op = "criar_evento",
                     !.id = IF CriarEventoOk(hora, provOk) THEN nextEvento ELSE NULL,
                     !.data = Algum(data), !.hora = Algum(hora),
                     !.titulo = Algum(titulo), !.descricao = Algum(descricao),
                     !.ok = CriarEventoOk(hora, provOk)]
    /\ UNCHANGED <<storeVars, deleteCalls, updateCalls, req, resp, slotVars>>

\* atualizar_evento(event_id, data, hora, titulo, descricao)
CalAtualizarEvento(event_id, data, hora, titulo, descricao, provOk) ==
    /\ IF AtualizarEventoOk(event_id, data, hora, provOk)
          THEN eventos' = [eventos EXCEPT ![event_id] =
                              CorpoAtualizado(eventos[event_id], data, hora, titulo,
                                              descricao, DURACAO_MIN)]
          ELSE UNCHANGED eventos
    /\ ultima' = [SemChamada EXCEPT !.op = "atualizar_evento", !.id = event_id,
                     !.data = data, !.hora = hora,
                     !.titulo = titulo, !.descricao = descricao,
                     !.ok = AtualizarEventoOk(event_id, data, hora, provOk),
                     !.antes = IF event_id \in DOMAIN eventos THEN eventos[event_id]
                                                              ELSE SemEvento]
    /\ UNCHANGED <<storeVars, nextEvento, criados, deleteCalls, updateCalls,
                   req, resp, slotVars>>

\* cancelar_evento(event_id)
CalCancelarEvento(event_id, provOk) ==
    /\ CancelarEvento(event_id, provOk)
    /\ ultima' = [SemChamada EXCEPT !.op = "cancelar_evento", !.id = event_id,
                     !.ok = provOk /\ event_id \in DOMAIN eventos]
    /\ UNCHANGED <<storeVars, nextEvento, criados, updateCalls, req, resp, slotVars>>

\* listar_horarios_ocupados(data)
CalListar(data) ==
    /\ ultima' = [SemChamada EXCEPT !.op = "listar_horarios_ocupados",
                     !.data = Algum(data), !.ok = TRUE,
                     !.lista = ListarHorariosOcupados(data)]
    /\ UNCHANGED <<storeVars, calVars, req, resp, slotVars>>

NextCal ==
    \/ \E t \in TitulosCal, d \in DatasCal, h \in HorasCal, ds \in DescricoesCal,
          provOk \in BOOLEAN : CalCriarEvento(t, d, h, ds, provOk)
    \/ \E e \in 1..MaxEventos, d \in DatasOpt, h \in HorasOpt, t \in TitulosOpt,
          ds \in DescricoesOpt, provOk \in BOOLEAN :
          CalAtualizarEvento(e, d, h, t, ds, provOk)
    \/ \E e \in 1..MaxEventos, provOk \in BOOLEAN : CalCancelarEvento(e, provOk)
    \/ \E d \in DatasCal : CalListar(d)

SpecCal == Init /\ [][NextCal]_vars

\* C9: an update given no title and no description leaves the fetched event's
\* title and description; given a date and a time it writes start = that date
\* and time and end = start plus the fixed duration; given only one of them
\* (or neither) it leaves start and end as fetched.
C9_UpdateRecomputesStartEndOnly ==
    (/\ ultima.op = "atualizar_evento" /\ ultima.ok
     /\ ~TruthyStr(ultima.titulo) /\ ~TruthyStr(ultima.descricao))
    => LET e == eventos[ultima.id]
           a == ultima.antes
       IN  /\ e.summary = a.summary
           /\ e.description = a.description
           /\ IF ultima.data # Nenhum /\ ultima.hora # Nenhum
                 THEN /\ e.start = [data |-> ultima.data[1], hora |-> ultima.hora[1]]
                      /\ EmMinutos(e.end) = EmMinutos(e.start) + DURACAO_MIN
                      /\ HoraValida(e.end.hora)
                 ELSE /\ e.start = a.start
                      /\ e.end = a.end

\* an update with a date and a time and nothing else has moved an event that
\* had a title and a description
C9_Witness ==
    /\ ultima.op = "atualizar_evento" /\ ultima.ok
    /\ ultima.titulo = Nenhum /\ ultima.descricao = Nenhum
    /\ ultima.data # Nenhum /\ ultima.hora # Nenhum
    /\ eventos[ultima.id].start # ultima.antes.start
    /\ ultima.antes.summary # "" /\ ultima.antes.description # ""

----------------------------------------------------------------------------
(* Specification of the availability endpoints of server.py *)

\* the window's days from which the provider stops answering; JANELA_DIAS: it
\* answers every call
FalhasProvedor == {0, 1, 2, JANELA_DIAS - 1, JANELA_DIAS}

RECURSIVE VarreDiasFalha(_, _, _, _, _)
\* proximos_slots_disponiveis_calendar when listar_horarios_ocupados raises
\* from day falha of the window on: nothing inside the function catches it,
\* so the scan ends there (erro) and resultado is dropped with the frame
VarreDiasFalha(res, i, hj, qtd, falha) ==
    IF i >= JANELA_DIAS
       THEN [res |-> res, erro |-> FALSE]
       ELSE LET data == hj + i
            IN  IF FimDeSemana(data)
                   THEN VarreDiasFalha(res, i + 1, hj, qtd, falha)
                   ELSE IF i >= falha
                           THEN [res |-> res, erro |-> TRUE]
                           ELSE LET v == VarreHoras(res, data,
                                                    ListarHorariosOcupados(data), 1, qtd)
                                IN  IF v.ret
                                       THEN [res |-> v.res, erro |-> FALSE]
                                       ELSE VarreDiasFalha(v.res, i + 1, hj, qtd, falha)

\* HTTP responses: 200 with the returned value, or HTTPException(500, str(e))
\* (also what an exception no handler catches is answered with)
Resposta200(corpo) == [status |-> 200, corpo |-> corpo]
Resposta500 == [status |-> 500, corpo |-> [detail |-> "erro"]]

\* horarios_disponiveis: return slots, or except Exception: raise HTTPException(500)
RespostaDisponiveis_ListaParcial(v) == Resposta200([slots |-> v.res])

RespostaDisponiveis(v) ==
    IF v.erro THEN Resposta500 ELSE Resposta200([slots |-> v.res])

\* SELECT hora_consulta FROM agendamentos WHERE data_consulta=%s AND status='ativo'
\* (the rows' times; their order and repetitions are not modelled)
HorasAtivasNoBanco(data) ==
    {agendamentos[a].hora :
        a \in {x \in DOMAIN agendamentos : /\ agendamentos[x].data = data
                                           /\ agendamentos[x].status = "ativo"}}

\* horarios_ocupados: the provider's list, or in the except branch the store's
\* answer; a store failure there is not caught
RespostaOcupados(data, provOk, dbOk) ==
    IF provOk
       THEN Resposta200([horas |-> ListarHorariosOcupados(data)])
       ELSE IF dbOk THEN Resposta200([horas |-> HorasAtivasNoBanco(data)])
                    ELSE Resposta500

\* GET /api/horarios-disponiveis
HorariosDisponiveis(falha) ==
    /\ LET v == VarreDiasFalha(<< >>, 0, hoje, QUANTIDADE_ENDPOINT, falha)
       IN  resp' = [op |-> "horarios_disponiveis", falhou |-> v.erro,
                    http |-> RespostaDisponiveis(v)]
    /\ UNCHANGED <<storeVars, calVars, req, slotVars, ultima>>

\* GET /api/horarios-ocupados/{data}
HorariosOcupados(data, provOk, dbOk) ==
    /\ resp' = [op |-> "horarios_ocupados", falhou |-> ~provOk, data |-> data,
                http |-> RespostaOcupados(data, provOk, dbOk)]
    /\ UNCHANGED <<storeVars, calVars, req, slotVars, ultima>>

\* The store the endpoints run over: client 1 and its appointments, on the
\* day of the query or the day after, none mirrored on the calendar.
LinhaDe(d, h, st) ==
    [cliente_id |-> 1, data |-> d, hora |-> h, status |-> st,
     google_event_id |-> NULL]

TabelasDisponibilidade(hj) ==
    { << >>,
      <<LinhaDe(hj, <<8, 0>>, "ativo")>>,
      <<LinhaDe(hj, <<8, 0>>, "cancelado")>>,
      <<LinhaDe(hj, <<9, 0>>, "ativo"), LinhaDe(hj, <<10, 0>>, "cancelado"),
        LinhaDe(hj + 1, <<11, 0>>, "ativo")>> }

\* a Monday and a Friday
HojesDisponibilidade == {0, 4}

InitDisponibilidade ==
    /\ clientes = {1}
    /\ nextCliente = 2
    /\ hoje \in HojesDisponibilidade
    /\ agendamentos \in TabelasDisponibilidade(hoje)
    /\ nextAg = Len(agendamentos) + 1
    /\ \E k \in {0, 1}, b1 \in {{}, Cheio \ {<<16, 0>>}}, b2 \in {{}, Cheio} :
          eventos = AgendaEventos(hoje, k, b1, b2)
    /\ nextEvento = 1
    /\ criados = {}
    /\ deleteCalls = {}
    /\ updateCalls = {}
    /\ req = [p \in Procs |-> Idle]
    /\ resp = Idle
    /\ ultima = SemChamada
    /\ quantidade = QUANTIDADE_ENDPOINT
    /\ resultado = << >>
    /\ slotsPc = "off"

NextDisponibilidade ==
    \/ \E falha \in FalhasProvedor : HorariosDisponiveis(falha)
    \/ \E d \in {hoje, hoje + 1}, provOk \in BOOLEAN, dbOk \in BOOLEAN :
          HorariosOcupados(d, provOk, dbOk)

SpecDisponibilidade == InitDisponibilidade /\ [][NextDisponibilidade]_vars

\* C11: when a provider call failed during the query, the free-slots endpoint
\* answers an error carrying no slot list, and the busy-times endpoint answers
\* an error or the times of the store's active appointments of that date.
C11_AvailabilityFailureNeverEmptyList ==
    /\ (resp.op = "horarios_disponiveis" /\ resp.falhou)
       => /\ resp.http.status = 500
          /\ "slots" \notin DOMAIN resp.http.corpo
    /\ (resp.op = "horarios_ocupados" /\ resp.falhou)
       => \/ resp.http.status = 500 /\ "horas" \notin DOMAIN resp.http.corpo
          \/ /\ resp.http.status = 200
             /\ resp.http.corpo.horas =
                   {agendamentos[a].hora :
                       a \in {x \in DOMAIN agendamentos :
                                 /\ agendamentos[x].data = resp.data
                                 /\ agendamentos[x].status = "ativo"}}

\* the provider failed on the last day of a scan that had already found
\* slots, and the free-slots endpoint answered the error
C11_Witness ==
    /\ resp.op = "horarios_disponiveis" /\ resp.falhou
    /\ resp.http.status = 500
    /\ ProximosSlots(hoje, QUANTIDADE_ENDPOINT) # << >>
    /\ Len(ProximosSlots(hoje, QUANTIDADE_ENDPOINT)) < QUANTIDADE_ENDPOINT

----------------------------------------------------------------------------
(* Specification of the create / list round trip of the Calendar Client *)

\* times of day an event is created at: a candidate time, one whose event
\* ends after midnight, the last minute of the day
HorasIdaVolta == {<<8, 0>>, <<23, 30>>, <<23, 59>>}

NextIdaVolta ==
    \/ \E t \in TitulosCal, d \in DatasCal, h \in HorasIdaVolta, ds \in DescricoesCal,
          provOk \in BOOLEAN : CalCriarEvento(t, d, h, ds, provOk)
    \/ \E e \in 1..MaxEventos, provOk \in BOOLEAN : CalCancelarEvento(e, provOk)
    \/ \E d \in DatasCal : CalListar(d)

SpecIdaVolta == Init /\ [][NextIdaVolta]_vars

\* C12: once criar_evento has succeeded for a date and a time, the busy set
\* listar_horarios_ocupados returns for that date contains the time, for as
\* long as the event is on the calendar where it was created.
C12_CreateThenListContainsTime ==
    /\ (ultima.op = "criar_evento" /\ ultima.ok)
       => ultima.hora[1] \in ListarHorariosOcupados(ultima.data[1])
    /\ ultima.op = "listar_horarios_ocupados"
       => \A e \in DOMAIN eventos :
             eventos[e].start.data = ultima.data[1]
             => eventos[e].start.hora \in ultima.lista

----------------------------------------------------------------------------
(* Visibility of a new appointment to concurrent requests (Spec) *)

\* worker q is in a status-change or delete request
Leitor(q) == req[q].op \in {"atualizar_status", "deletar_agendamento"}

\* worker p's create-appointment has inserted its row and not yet committed
CriandoLinha(p) ==
    req[p].op = "criar_agendamento" /\ req[p].pc \in {"calendar", "commit"}

\* C13: the row of a create-appointment request and the reference its
\* calendar create returned become visible in one commit: until then no
\* status-change or delete request finds the row, the commit shows the row
\* with the reference, a request that finds a row reads the committed
\* reference, and a reference on a row never goes back to null.
C13_RowAndRefVisibleTogether ==
    /\ \A p \in Procs, q \in Procs :
          (CriandoLinha(p) /\ Leitor(q) /\ req[q].id = req[p].ag_id) => ~req[q].achou
    /\ [][/\ \A p \in Procs, q \in Procs :
                (CriandoLinha(p)' /\ Leitor(q)' /\ req'[q].id = req'[p].ag_id)
                => ~req'[q].achou
          /\ \A p \in Procs :
                /\ (req[p].op = "criar_agendamento" /\ req[p].pc = "calendar"
                      /\ req'[p].pc = "commit" /\ criados' # criados)
                   => /\ req'[p].event_id \in criados' \ criados
                      /\ req[p].ag_id \notin DOMAIN agendamentos'
                /\ (req[p].op = "criar_agendamento" /\ req[p].pc = "commit"
                      /\ Retornou(p))
                   => /\ req[p].ag_id \notin DOMAIN agendamentos
                      /\ req[p].ag_id \in DOMAIN agendamentos'
                      /\ agendamentos'[req[p].ag_id].google_event_id = req[p].event_id
                /\ (req[p].pc = "idle" /\ Leitor(p)')
                   => /\ req'[p].achou = (req'[p].id \in DOMAIN agendamentos)
                      /\ req'[p].lido = RefDe(req'[p].id)
          /\ \A a \in DOMAIN agendamentos \cap DOMAIN agendamentos' :
                agendamentos[a].google_event_id # NULL
                => agendamentos'[a].google_event_id # NULL
         ]_vars

\* a create-appointment whose calendar create succeeded has just committed,
\* and a status change to cancelled that started right after it has read the
\* row with its reference
C13_Witness ==
    /\ resp.op = "criar_agendamento" /\ resp.result = "ok"
    /\ \E q \in Procs :
          /\ req[q].op = "atualizar_status" /\ req[q].status = "cancelado"
          /\ req[q].achou /\ req[q].lido # NULL
          /\ req[q].lido \in criados

============================================================================
